---- MODULE Spec2Model ----
(***************************************************************************)
(* A model of the UNO engine of src/uno.py: the classes Card, Player and   *)
(* Game and the loop of main().                                            *)
(*                                                                         *)
(* Representation.  A card is a record [color, type] over the values of    *)
(* the enumerations CardColor and CardType.  The deck, the discard pile    *)
(* and the hands are sequences, as the lists of the code: the top card is  *)
(* the last element.  random.shuffle may leave a list in any order; the    *)
(* model draws the order from a bounded family of permutations (shuffle    *)
(* below).  The deck is built as __init_deck__ builds it, from fewer       *)
(* colours, types and copies, and fewer cards are dealt, so that a hand    *)
(* and the deck run out within a few turns.                                *)
(***************************************************************************)
EXTENDS Integers, Sequences, FiniteSets, Bags, TLC

VARIABLES
    num_player,     \* len(self.players)
    deck,           \* Game.deck
    discard,        \* Game.discard
    cards,          \* Player.cards of every seat
    score,          \* Player.score of every seat
    wild_color,     \* Game.wild_color
    winner_index,   \* Game.winner_index
    clockwise,      \* Game.clockwise
    turn,           \* Game.turn
    pc,             \* where main() and Game.__init__ stand
    steps,          \* number of calls of Game.run that have returned
    ev,             \* what the last step did and reported
    refused         \* the input Game.run has just refused

vars == <<num_player, deck, discard, cards, score, wild_color, winner_index,
          clockwise, turn, pc, steps, ev, refused>>

(***************************************************************************)
(* Bounds of the model.                                                    *)
(***************************************************************************)
\* Largest number of players explored (main accepts 2..10).
MaxPlayers == 3
\* Cards dealt to each player (the code deals 7 of 108).
HandSize == 2
\* Calls of Game.run explored in one round.
MaxSteps == 3
\* Largest stride of the permutations a shuffle is drawn from.
MaxStride == 5

(***************************************************************************)
(* The enumerations.                                                       *)
(***************************************************************************)
RED == 1
YELLOW == 2
GREEN == 3
BLUE == 4
BLACK == 5

ZERO == 0
ONE == 1
NINE == 9
SKIP == 10
REVERSE == 11
DRAW_TWO == 12
WILD == 13
WILD_DRAW_FOUR == 14

CardColor == RED..BLACK
CardType == ZERO..WILD_DRAW_FOUR

Card(color, type) == [color |-> color, type |-> type]

AllCards == {Card(c, t) : c \in CardColor, t \in CardType}

equals_color(a, b) == a.color = b.color

equals_type(a, b) == a.type = b.type

get_compare_key(card) == card.color * 100 + card.type

\* No card: the value of "the card" of a step that has none.
NoCard == [color |-> 0, type |-> 0 - 1]

\* main: "num_player >= 2 and num_player <= 10"
MinPlayers == 2

Seats == 0..(num_player - 1)

(***************************************************************************)
(* Lists.                                                                  *)
(***************************************************************************)
Last(list) == list[Len(list)]

\* list[:-1]
ButLast(list) == SubSeq(list, 1, Len(list) - 1)

\* The position in 1..Len(list) of the Python index i (negative: from the end).
At(list, i) == IF i < 0 THEN Len(list) + i + 1 ELSE i + 1

\* del(list[i]) for a position of the list.
Delete(list, pos) == SubSeq(list, 1, pos - 1) \o SubSeq(list, pos + 1, Len(list))

RECURSIVE Concat(_)
Concat(lists) == IF lists = <<>> THEN <<>> ELSE Head(lists) \o Concat(Tail(lists))

Repeat(x, k) == [i \in 1..k |-> x]

\* The cards of a list, as a set.
Elems(list) == {list[i] : i \in 1..Len(list)}

RECURSIVE GCD(_, _)
GCD(a, b) == IF b = 0 THEN a ELSE GCD(b, a % b)

(***************************************************************************)
(* random.shuffle.  Any order can come out; the model draws it from the    *)
(* permutations i -> a * i + b (mod the length), for every cut b and       *)
(* every stride a up to MaxStride that is prime to the length.             *)
(***************************************************************************)
shuffle(list) ==
    LET n == Len(list)
    IN  IF n = 0 THEN {list}
        ELSE {[i \in 1..n |-> list[((a * (i - 1) + b) % n) + 1]] :
                 a \in {s \in 1..MaxStride : GCD(s, n) = 1}, b \in 0..(n - 1)}

\* sorted(list, key=Card.get_compare_key): insertion, stable.
RECURSIVE sorted(_)
insert(card, list) ==
    LET before == {i \in 1..Len(list) :
                     get_compare_key(list[i]) <= get_compare_key(card)}
        k == Cardinality(before)
    IN  SubSeq(list, 1, k) \o <<card>> \o SubSeq(list, k + 1, Len(list))

sorted(list) ==
    IF list = <<>> THEN <<>>
    ELSE insert(Last(list), sorted(ButLast(list)))

\* __init_deck__ with the ZERO of a colour as often as its other cards.
deck_of_more_zeros(colors, types, copies, wilds) ==
    Concat([i \in 1..Len(colors) |->
              Repeat(Card(colors[i], ZERO), copies)
              \o Concat([j \in 1..Len(types) |->
                           Repeat(Card(colors[i], types[j]), copies)])])
    \o Concat([k \in 1..wilds |->
                 <<Card(BLACK, WILD), Card(BLACK, WILD_DRAW_FOUR)>>])

(***************************************************************************)
(* Game.__init_deck__, before its shuffle.  The code appends, for each     *)
(* colour of range(1, 5), one ZERO and two of every type of range(1, 13),  *)
(* and then four times a WILD and a WILD_DRAW_FOUR.                        *)
(***************************************************************************)
deck_of(colors, types, copies, wilds) ==
    Concat([i \in 1..Len(colors) |->
              <<Card(colors[i], ZERO)>>
              \o Concat([j \in 1..Len(types) |->
                           Repeat(Card(colors[i], types[j]), copies)])])
    \o Concat([k \in 1..wilds |->
                 <<Card(BLACK, WILD), Card(BLACK, WILD_DRAW_FOUR)>>])

\* The colours and types of the model's deck, one copy of each.
DeckColors == <<RED, YELLOW>>
DeckTypes == <<ONE, SKIP, REVERSE, DRAW_TWO>>

init_deck == deck_of(DeckColors, DeckTypes, 1, 1)

\* The deck as the code builds it.
FullDeck == deck_of([c \in RED..BLUE |-> c], [t \in ONE..DRAW_TWO |-> t], 2, 4)


(***************************************************************************)
(* The Game object as a record, so that the methods can be composed.       *)
(***************************************************************************)
Game ==
    [deck |-> deck, discard |-> discard, cards |-> cards,
     wild_color |-> wild_color, winner_index |-> winner_index,
     clockwise |-> clockwise, turn |-> turn]

\* The fields of the Game object after a step.
Becomes(g) ==
    /\ deck' = g.deck
    /\ discard' = g.discard
    /\ cards' = g.cards
    /\ wild_color' = g.wild_color
    /\ winner_index' = g.winner_index
    /\ clockwise' = g.clockwise
    /\ turn' = g.turn

\* Game.__shuffle_deck__
shuffle_deck(g) == {[g EXCEPT !.deck = d] : d \in shuffle(g.deck)}

\* Player.sort_cards of players[p]
sort_cards(g, p) == [g EXCEPT !.cards[p] = sorted(@)]

\* Player.shuffle_cards of players[p]
shuffle_cards(g, p) == {[g EXCEPT !.cards[p] = h] : h \in shuffle(g.cards[p])}

\* __next_turn__ that wraps one seat late.
next_turn_wraps_late(g) ==
    IF g.clockwise
    THEN [g EXCEPT !.turn = IF g.turn + 1 > num_player
                            THEN g.turn + 1 - num_player ELSE g.turn + 1]
    ELSE [g EXCEPT !.turn = IF g.turn - 1 < 0 - 1
                            THEN g.turn - 1 + num_player ELSE g.turn - 1]

\* __next_turn__ that leaves the turn where it is.
next_turn_stays(g) == g

\* __next_turn__ that forgets the direction of play.
next_turn_clockwise(g) ==
    [g EXCEPT !.turn = IF g.turn + 1 >= num_player
                       THEN g.turn + 1 - num_player ELSE g.turn + 1]

\* Game.__next_turn__
next_turn(g) ==
    IF g.clockwise
    THEN [g EXCEPT !.turn = IF g.turn + 1 >= num_player
                            THEN g.turn + 1 - num_player ELSE g.turn + 1]
    ELSE [g EXCEPT !.turn = IF g.turn - 1 < 0
                            THEN g.turn - 1 + num_player ELSE g.turn - 1]

\* The two lines without "del(self.deck[-1])".
receive_topdeck_keeps(g, p) ==
    [g EXCEPT !.cards[p] = Append(@, Last(g.deck))]

\* "player.receive_card(self.deck[-1])" and "del(self.deck[-1])"
receive_topdeck(g, p) ==
    [g EXCEPT !.cards[p] = Append(@, Last(g.deck)), !.deck = ButLast(@)]

\* __give_topdeck_to_player__ that leaves no card on the discard pile.
give_topdeck_to_player_empties(g, p) ==
    IF g.deck = <<>>
    THEN {IF h.deck = <<>>
          THEN [g |-> h, ok |-> FALSE]
          ELSE [g |-> receive_topdeck(h, p), ok |-> TRUE] :
             h \in {[s EXCEPT !.discard = <<>>] :
                       s \in shuffle_deck([g EXCEPT !.deck = g.discard])}}
    ELSE {[g |-> receive_topdeck(g, p), ok |-> TRUE]}

\* __give_topdeck_to_player__ that takes the whole discard pile, its top
\* card too, for the deck.
give_topdeck_to_player_takes_top(g, p) ==
    IF g.deck = <<>>
    THEN {IF h.deck = <<>>
          THEN [g |-> h, ok |-> FALSE]
          ELSE [g |-> receive_topdeck(h, p), ok |-> TRUE] :
             h \in {[s EXCEPT !.discard = <<Last(g.discard)>>] :
                       s \in shuffle_deck([g EXCEPT !.deck = g.discard])}}
    ELSE {[g |-> receive_topdeck(g, p), ok |-> TRUE]}

(***************************************************************************)
(* Game.__give_topdeck_to_player__(players[p]).  The results are the       *)
(* possible outcomes [g, ok]: the Game afterwards and the value returned.  *)
(***************************************************************************)
give_topdeck_to_player(g, p) ==
    IF g.deck = <<>>
    THEN {IF h.deck = <<>>
          THEN [g |-> h, ok |-> FALSE]
          ELSE [g |-> receive_topdeck(h, p), ok |-> TRUE] :
             h \in {[s EXCEPT !.discard = <<Last(g.discard)>>] :
                       s \in shuffle_deck([g EXCEPT !.deck = ButLast(g.discard)])}}
    ELSE {[g |-> receive_topdeck(g, p), ok |-> TRUE]}

\* k calls of __give_topdeck_to_player__(players[p]), from each Game of G
\* (no Game, no outcome).
RECURSIVE give_n(_, _, _)
give_n(G, p, k) ==
    IF k = 0 \/ G = {} THEN G
    ELSE give_n(UNION {{r.g : r \in give_topdeck_to_player(g, p)} : g \in G},
                p, k - 1)

\* Game.__discard_topdeck__
discard_topdeck(g) ==
    [g EXCEPT !.discard = Append(@, Last(g.deck)), !.deck = ButLast(@)]

\* Game.__discard_player_card__, for a position of the hand.
discard_player_card(g, p, pos) ==
    [g EXCEPT !.discard = Append(@, g.cards[p][pos]),
              !.cards[p] = Delete(@, pos)]

\* __can_be_played__ without the test of the type.
can_be_played_no_type(g, card) ==
    IF g.wild_color # BLACK /\ card.color = g.wild_color THEN TRUE
    ELSE IF equals_color(card, Last(g.discard)) THEN TRUE
    ELSE IF card.color = BLACK THEN TRUE
    ELSE FALSE

\* Game.__can_be_played__ (it returns True, or None which is false).
can_be_played(g, card) ==
    IF g.wild_color # BLACK /\ card.color = g.wild_color THEN TRUE
    ELSE IF equals_color(card, Last(g.discard)) THEN TRUE
    ELSE IF equals_type(card, Last(g.discard)) THEN TRUE
    ELSE IF card.color = BLACK THEN TRUE
    ELSE FALSE

(***************************************************************************)
(* The prompts.  A colour is asked for until the answer is one of          *)
(* ColorNames, a challenge until it is one of ChallengeAnswers; the        *)
(* answers refused change nothing, so the input of a step is the answer    *)
(* accepted.                                                               *)
(***************************************************************************)
ColorNames == <<".r", ".y", ".g", ".b">>

ColorAnswers == Elems(ColorNames)

ChallengeAnswers == {".y", ".n"}

\* list.index, counted from 0.
index(list, x) == (CHOOSE i \in 1..Len(list) : list[i] = x) - 1

\* The colour counted from 0, as list.index counts.
called_from_zero(color) == index(ColorNames, color)

\* CardColor(color_value) of the colour answered.
called(color) == index(ColorNames, color) + 1

(***************************************************************************)
(* Game.__play_card__                                                      *)
(***************************************************************************)
\* "self.wild_color == CardColor["BLACK"]" after Skip, Draw Two and Reverse:
\* a comparison whose value is dropped, so the Game is left as it is.
compare_wild_color(g) == g

\* "card_it.get_color == self.wild_color": the method itself, not its
\* value, is compared with a CardColor, and the two are never equal.
get_color_is(card_it, color) == FALSE

\* is_legal_wd4, computed after the Wild Draw Four has been discarded: the
\* card it was played on is discard[-2].
is_legal_wd4(g) ==
    LET below == g.discard[Len(g.discard) - 1]
    IN  ~ \E card_it \in Elems(g.cards[g.turn]) :
            /\ card_it.type # WILD_DRAW_FOUR
            /\ \/ below.color = BLACK /\ get_color_is(card_it, g.wild_color)
               \/ below.color # BLACK /\ equals_color(card_it, below)

\* The Wild Draw Four branch that leaves the turn with the seat that drew.
play_wild_draw_four_no_skip(g, color, answer) ==
    LET legal == is_legal_wd4(g)
        g1 == [g EXCEPT !.wild_color = called(color)]
        challenged_index == g1.turn
        g2 == next_turn(g1)
    IN  IF answer = ".y"
        THEN IF legal
             THEN {sort_cards(h, g2.turn) :
                     h \in give_n(shuffle_cards(g2, challenged_index),
                                  g2.turn, 6)}
             ELSE {sort_cards(h, challenged_index) :
                     h \in give_n(shuffle_cards(g2, challenged_index),
                                  challenged_index, 4)}
        ELSE {sort_cards(h, g2.turn) : h \in give_n({g2}, g2.turn, 4)}

\* The Wild Draw Four branch with 4 cards, not 6, for a challenge lost.
play_wild_draw_four_gives_four(g, color, answer) ==
    LET legal == is_legal_wd4(g)
        g1 == [g EXCEPT !.wild_color = called(color)]
        challenged_index == g1.turn
        g2 == next_turn(g1)
        drawn == IF answer = ".y"
                 THEN IF legal
                      THEN {sort_cards(h, g2.turn) :
                              h \in give_n(shuffle_cards(g2, challenged_index),
                                           g2.turn, 4)}
                      ELSE {sort_cards(h, challenged_index) :
                              h \in give_n(shuffle_cards(g2, challenged_index),
                                           challenged_index, 4)}
                 ELSE {sort_cards(h, g2.turn) : h \in give_n({g2}, g2.turn, 4)}
    IN  {next_turn(h) : h \in drawn}

\* The Wild Draw Four branch, after the card has been discarded.
play_wild_draw_four(g, color, answer) ==
    LET legal == is_legal_wd4(g)
        g1 == [g EXCEPT !.wild_color = called(color)]
        challenged_index == g1.turn
        g2 == next_turn(g1)
        drawn == IF answer = ".y"
                 THEN IF legal
                      THEN {sort_cards(h, g2.turn) :
                              h \in give_n(shuffle_cards(g2, challenged_index),
                                           g2.turn, 6)}
                      ELSE {sort_cards(h, challenged_index) :
                              h \in give_n(shuffle_cards(g2, challenged_index),
                                           challenged_index, 4)}
                 ELSE {sort_cards(h, g2.turn) : h \in give_n({g2}, g2.turn, 4)}
    IN  {next_turn(h) : h \in drawn}

\* The Reverse branch that moves the turn before it turns the direction.
play_reverse_turns_late(g) ==
    IF num_player = 2
    THEN compare_wild_color(next_turn(next_turn(g)))
    ELSE compare_wild_color([next_turn(g) EXCEPT !.clockwise = ~@])

\* The Reverse branch without the case of two players.
play_reverse_toggles(g) ==
    compare_wild_color(next_turn([g EXCEPT !.clockwise = ~@]))

\* The Reverse branch.
play_reverse(g) ==
    IF num_player = 2
    THEN compare_wild_color(next_turn(next_turn(g)))
    ELSE compare_wild_color(next_turn([g EXCEPT !.clockwise = ~@]))

\* The Skip branch.
play_skip(g) == compare_wild_color(next_turn(next_turn(g)))

\* The Draw Two branch with one card given.
play_draw_two_gives_one(g) ==
    LET g1 == next_turn(g)
    IN  {compare_wild_color(next_turn(sort_cards(h, g1.turn))) :
           h \in give_n({g1}, g1.turn, 1)}

\* The Draw Two branch.
play_draw_two(g) ==
    LET g1 == next_turn(g)
    IN  {compare_wild_color(next_turn(sort_cards(h, g1.turn))) :
           h \in give_n({g1}, g1.turn, 2)}

\* The Wild branch without the colour.
play_wild_no_color(g, color) == next_turn(g)

\* The Wild branch.
play_wild(g, color) == next_turn([g EXCEPT !.wild_color = called(color)])

\* The test of the seat whose turn is next, not of the seat that played.
wins_the_match_next(g, turn_before) == g.cards[g.turn] = <<>>

\* "if not self.players[turn_before].get_cards()"
wins_the_match(g, turn_before) == g.cards[turn_before] = <<>>

\* The outcomes [g, ret, audit] of __play_card__(index): the Game
\* afterwards, the value returned, and is_legal_wd4 (TRUE when the card is
\* no Wild Draw Four).
play_card(g, i, color, answer) ==
    LET turn_before == g.turn
        pos == At(g.cards[turn_before], i)
        card == g.cards[turn_before][pos]
        g0 == discard_player_card(g, turn_before, pos)
        after ==
            IF card.type = SKIP THEN {play_skip(g0)}
            ELSE IF card.type = DRAW_TWO THEN play_draw_two(g0)
            ELSE IF card.type = REVERSE THEN {play_reverse(g0)}
            ELSE IF card.type = WILD THEN {play_wild(g0, color)}
            ELSE IF card.type = WILD_DRAW_FOUR
            THEN play_wild_draw_four(g0, color, answer)
            ELSE {next_turn(g0)}
        audit == IF card.type = WILD_DRAW_FOUR THEN is_legal_wd4(g0) ELSE TRUE
    IN  {IF wins_the_match(h, turn_before)
         THEN [g |-> [h EXCEPT !.winner_index = turn_before],
               ret |-> FALSE, audit |-> audit]
         ELSE [g |-> h, ret |-> TRUE, audit |-> audit] : h \in after}

\* The answers a play of card asks for: a colour for a wild card, and a
\* challenge for a Wild Draw Four; "" where nothing is asked.
ColorsAsked(card) ==
    IF card.type \in {WILD, WILD_DRAW_FOUR} THEN ColorAnswers ELSE {""}

AnswersAsked(card) ==
    IF card.type = WILD_DRAW_FOUR THEN ChallengeAnswers ELSE {""}


(***************************************************************************)
(* What a step reports: the operation, the seat whose turn it was, the     *)
(* card played or refused, the card drawn by a ".d", is_legal_wd4, the     *)
(* answers to the colour prompt and to the challenge prompt, and the value *)
(* returned by Game.run.                                                   *)
(***************************************************************************)
Event(op, seat, card, drew, audit, color, answer, ret) ==
    [op |-> op, seat |-> seat, card |-> card, drew |-> drew,
     audit |-> audit, color |-> color, answer |-> answer, ret |-> ret]

Quiet(op) == Event(op, turn, NoCard, NoCard, TRUE, "", "", TRUE)

\* No input refused.
Nothing == [why |-> "", card |-> NoCard]

(***************************************************************************)
(* main() up to Game(players), and Game.__init__ up to the end of          *)
(* __init_deck__.                                                          *)
(***************************************************************************)
Init ==
    /\ num_player \in MinPlayers..MaxPlayers
    /\ deck \in shuffle(init_deck)
    /\ discard = <<>>
    /\ cards = [p \in 0..(num_player - 1) |-> <<>>]
    /\ score = [p \in 0..(num_player - 1) |-> 0]
    /\ wild_color = BLACK
    /\ winner_index = 0 - 1
    /\ clockwise = TRUE
    /\ turn = 1
    /\ pc = "deal"
    /\ steps = 0
    /\ ev = Event("init", 1, NoCard, NoCard, TRUE, "", "", TRUE)
    /\ refused = Nothing

\* Game.__init__: size cards for every player from seat p on, in seat order.
RECURSIVE deal_hands(_, _, _)
deal_hands(G, p, size) ==
    IF p = num_player \/ G = {} THEN G
    ELSE deal_hands({sort_cards(h, p) :
                       h \in give_n({[g EXCEPT !.cards[p] = <<>>] : g \in G},
                                    p, size)},
                    p + 1, size)

\* The hands of the model's rounds.
deal(G, p) == deal_hands(G, p, HandSize)

\* The code deals 70 cards of 108 at most; a deck that cannot serve every
\* hand and the first discard is no deck of the game.
Deal ==
    /\ pc = "deal"
    /\ num_player * HandSize < Len(deck)
    /\ \E g \in deal({Game}, 0) : Becomes(g)
    /\ pc' = "flip"
    /\ ev' = Quiet("deal")
    /\ UNCHANGED <<num_player, score, steps, refused>>

\* Game.__init__: the first card discarded from the deck.
OpeningFlip ==
    /\ pc = "flip"
    /\ Becomes(discard_topdeck(Game))
    /\ pc' = "flipped"
    /\ ev' = Quiet("flip")
    /\ UNCHANGED <<num_player, score, steps, refused>>

\* Game.__init__: one turn of the loop that puts a Wild Draw Four back,
\* shuffles and discards again.
FlipAgain ==
    /\ pc = "flipped"
    /\ Last(discard) = Card(BLACK, WILD_DRAW_FOUR)
    /\ \E g \in shuffle_deck([Game EXCEPT !.deck = Append(@, Last(discard)),
                                          !.discard = ButLast(@)]) :
          Becomes(discard_topdeck(g))
    /\ ev' = Quiet("flip")
    /\ UNCHANGED <<num_player, score, steps, pc, refused>>

(***************************************************************************)
(* Game.__init__: the first discard's effect.  The colour of a first Wild  *)
(* is read once into called_color; the loop on a wrong answer reads the    *)
(* next answers into another variable (calledColor), so it never ends.     *)
(***************************************************************************)
OpeningAnswers == ColorAnswers \cup {".R", ".x"}

\* str.lower on the answers of the model.
lower(s) == IF s = ".R" THEN ".r" ELSE s

OpeningCard ==
    /\ pc = "flipped"
    /\ Last(discard) # Card(BLACK, WILD_DRAW_FOUR)
    /\ LET type == Last(discard).type
       IN  IF type = SKIP
           THEN Becomes(next_turn(Game)) /\ pc' = "run"
           ELSE IF type = DRAW_TWO
           THEN /\ \E h \in give_n({Game}, turn, 2) :
                      Becomes(next_turn(sort_cards(h, turn)))
                /\ pc' = "run"
           ELSE IF type = REVERSE
           THEN Becomes(next_turn([Game EXCEPT !.clockwise = FALSE]))
                /\ pc' = "run"
           ELSE IF type = WILD
           THEN \E answer \in OpeningAnswers :
                  LET called_color == lower(answer)
                  IN  /\ IF called_color \in ColorAnswers
                         THEN /\ Becomes([Game EXCEPT
                                            !.wild_color = called(called_color)])
                              /\ pc' = "run"
                         ELSE Becomes(Game) /\ pc' = "color_loop"
                      /\ ev' = Event("open", turn, NoCard, NoCard, TRUE,
                                     answer, "", TRUE)
           ELSE Becomes(Game) /\ pc' = "run"
    /\ IF Last(discard).type = WILD THEN TRUE ELSE ev' = Quiet("open")
    /\ UNCHANGED <<num_player, score, steps, refused>>

\* One turn of the loop of lines 315-318: an answer is read and dropped.
ColorLoop ==
    /\ pc = "color_loop"
    /\ \E answer \in OpeningAnswers :
          ev' = Event("open_again", turn, NoCard, NoCard, TRUE, answer, "", TRUE)
    /\ UNCHANGED <<num_player, deck, discard, cards, score, wild_color,
                   winner_index, clockwise, turn, pc, steps, refused>>

(***************************************************************************)
(* Game.run, called by main while the round is on.  The player enters      *)
(* ".p k" for the k-th card shown (index k - 1) or ".d".  An input that is *)
(* refused (k out of range, a card that cannot be played, anything else)   *)
(* is answered and the loop of run asks again.                             *)
(***************************************************************************)
Hand == cards[turn]

\* RunReject that passes the turn on.
RunRejectPasses ==
    /\ pc = "run"
    /\ steps < MaxSteps
    /\ \E k \in 0..(Len(Hand) + 1) :
          LET i == k - 1
          IN  IF i < 0 \/ i >= Len(Hand)
              THEN refused' = [why |-> "Index out of range.", card |-> NoCard]
              ELSE /\ ~ can_be_played(Game, Hand[At(Hand, i)])
                   /\ refused' = [why |-> "This card cannot be played.",
                                  card |-> Hand[At(Hand, i)]]
    /\ pc' = "refused"
    /\ turn' = next_turn(Game).turn
    /\ UNCHANGED <<num_player, deck, discard, cards, score, wild_color,
                   winner_index, clockwise, steps, ev>>

\* "Index out of range." or "This card cannot be played.", then continue.
RunReject ==
    /\ pc = "run"
    /\ steps < MaxSteps
    /\ \E k \in 0..(Len(Hand) + 1) :
          LET i == k - 1
          IN  IF i < 0 \/ i >= Len(Hand)
              THEN refused' = [why |-> "Index out of range.", card |-> NoCard]
              ELSE /\ ~ can_be_played(Game, Hand[At(Hand, i)])
                   /\ refused' = [why |-> "This card cannot be played.",
                                  card |-> Hand[At(Hand, i)]]
    /\ pc' = "refused"
    /\ UNCHANGED <<num_player, deck, discard, cards, score, wild_color,
                   winner_index, clockwise, turn, steps, ev>>

\* The loop of run is back at input().
RunAgain ==
    /\ pc = "refused"
    /\ pc' = "run"
    /\ refused' = Nothing
    /\ UNCHANGED <<num_player, deck, discard, cards, score, wild_color,
                   winner_index, clockwise, turn, steps, ev>>

RunPlay ==
    /\ pc = "run"
    /\ steps < MaxSteps
    /\ \E k \in 1..Len(Hand) :
          LET i == k - 1
              player_card == Hand[At(Hand, i)]
          IN  /\ can_be_played(Game, player_card)
              /\ \E color \in ColorsAsked(player_card),
                    answer \in AnswersAsked(player_card) :
                    \E r \in play_card(Game, i, color, answer) :
                       /\ Becomes(r.g)
                       /\ pc' = IF r.ret THEN "run" ELSE "over"
                       /\ ev' = Event("play", turn, player_card, NoCard,
                                      r.audit, color, answer, r.ret)
    /\ steps' = steps + 1
    /\ UNCHANGED <<num_player, score, refused>>

KeepOrPlay == {".k", ".p"}

RunDraw ==
    /\ pc = "run"
    /\ steps < MaxSteps
    /\ \E d \in give_topdeck_to_player(Game, turn) :
          IF ~ d.ok
          THEN /\ Becomes(next_turn(d.g))
               /\ pc' = "run"
               /\ ev' = Event("draw", turn, NoCard, NoCard, TRUE, "", "", TRUE)
          ELSE \E choice \in KeepOrPlay :
                 LET new_card == Last(d.g.cards[turn])
                 IN  IF choice = ".p" /\ can_be_played(d.g, new_card)
                     THEN \E color \in ColorsAsked(new_card),
                             answer \in AnswersAsked(new_card) :
                             \E r \in play_card(d.g, 0 - 1, color, answer) :
                                /\ Becomes(r.g)
                                /\ pc' = IF r.ret THEN "run" ELSE "over"
                                /\ ev' = Event("play", turn, new_card,
                                               new_card, r.audit, color,
                                               answer, r.ret)
                     ELSE /\ Becomes(next_turn(sort_cards(d.g, turn)))
                          /\ pc' = "run"
                          /\ ev' = Event("draw", turn,
                                         IF choice = ".p" THEN new_card
                                         ELSE NoCard,
                                         new_card, TRUE, "", "", TRUE)
    /\ steps' = steps + 1
    /\ UNCHANGED <<num_player, score, refused>>

(***************************************************************************)
(* Game.game_end, called by main when run returns False.                   *)
(***************************************************************************)
\* The card values with a wild card counted as an action card.
card_score_wild_20(card) ==
    IF card.type \in ONE..NINE THEN card.type
    ELSE IF card.type \in {SKIP, DRAW_TWO, REVERSE, WILD, WILD_DRAW_FOUR} THEN 20
    ELSE 0

\* Game.game_end: what a card adds to the score.
card_score(card) ==
    IF card.type \in ONE..NINE THEN card.type
    ELSE IF card.type \in {SKIP, DRAW_TWO, REVERSE} THEN 20
    ELSE IF card.type \in {WILD, WILD_DRAW_FOUR} THEN 50
    ELSE 0

RECURSIVE hand_score(_)
hand_score(hand) ==
    IF hand = <<>> THEN 0
    ELSE card_score(Head(hand)) + hand_score(Tail(hand))

RECURSIVE others_score(_, _)
others_score(g, p) ==
    IF p = num_player THEN 0
    ELSE (IF p = g.winner_index THEN 0 ELSE hand_score(g.cards[p]))
         + others_score(g, p + 1)

GameEnd ==
    /\ pc = "over"
    /\ score' = [score EXCEPT ![winner_index] = @ + others_score(Game, 0)]
    /\ pc' = "scored"
    /\ ev' = Quiet("end")
    /\ UNCHANGED <<num_player, deck, discard, cards, wild_color, winner_index,
                   clockwise, turn, steps, refused>>

Next ==
    \/ Deal
    \/ OpeningFlip
    \/ FlipAgain
    \/ OpeningCard
    \/ ColorLoop
    \/ RunReject
    \/ RunAgain
    \/ RunPlay
    \/ RunDraw
    \/ GameEnd

Spec == Init /\ [][Next]_vars


(***************************************************************************)
(* Vocabulary of the properties.                                           *)
(***************************************************************************)
RECURSIVE HandsTotal(_, _)
HandsTotal(hands, p) ==
    IF p = num_player THEN 0 ELSE Len(hands[p]) + HandsTotal(hands, p + 1)

\* Cards in the deck, the discard pile and the hands.
Total == Len(deck) + Len(discard) + HandsTotal(cards, 0)

RECURSIVE BagOf(_)
BagOf(list) ==
    IF list = <<>> THEN EmptyBag ELSE SetToBag({Head(list)}) (+) BagOf(Tail(list))

\* The step is a call of Game.run that played a card.
PlayStep == steps' = steps + 1 /\ ev'.op = "play"

\* The step is a call of Game.run that drew a card, or tried to, and played
\* nothing.
DrawStep == steps' = steps + 1 /\ ev'.op = "draw"

\* The seat one step after seat p in the direction of play.
SeatAfter(p) ==
    IF clockwise THEN (p + 1) % num_player
    ELSE (p + num_player - 1) % num_player

WildTypes == {WILD, WILD_DRAW_FOUR}

\* C1: the cards of the deck, the discard pile and the hands are at all
\* times as many as __init_deck__ built; the deck the code builds holds 108.
C1_CardConservation ==
    /\ Total = Len(init_deck)
    /\ Len(FullDeck) = 108

\* C1 witness: a card was played and the draws it forced turned the discard
\* pile over into the deck (the pile is down to the card played).
C1_Witness ==
    /\ ev.op = "play"
    /\ Len(discard) = 1
    /\ deck # <<>>
    /\ Total = Len(init_deck)


(***************************************************************************)
(* __can_be_played__ as a function of its inputs: the card on top of the   *)
(* discard pile, wild_color and the card asked about, each any card of the *)
(* deck of the code or any CardColor.                                      *)
(***************************************************************************)
RealCards == Elems(FullDeck)

LegalityInit ==
    /\ num_player = MinPlayers
    /\ deck = <<>>
    /\ \E top \in RealCards : discard = <<top>>
    /\ \E candidate \in RealCards :
          cards = [p \in 0..(MinPlayers - 1) |->
                     IF p = 1 THEN <<candidate>> ELSE <<>>]
    /\ score = [p \in 0..(MinPlayers - 1) |-> 0]
    /\ wild_color \in CardColor
    /\ winner_index = 0 - 1
    /\ clockwise = TRUE
    /\ turn = 1
    /\ pc = "run"
    /\ steps = 0
    /\ ev = Event("init", 1, NoCard, NoCard, TRUE, "", "", TRUE)
    /\ refused = Nothing

\* Game.run, line 595: the card of the player is put to __can_be_played__.
CanBePlayed ==
    /\ pc = "run"
    /\ ev' = Event("can_be_played", turn, Hand[1], NoCard, TRUE, "", "",
                   can_be_played(Game, Hand[1]))
    /\ pc' = "asked"
    /\ UNCHANGED <<num_player, deck, discard, cards, score, wild_color,
                   winner_index, clockwise, turn, steps, refused>>

SpecLegality == LegalityInit /\ [][CanBePlayed]_vars

\* The four conditions of the legality rule, for a card on the top card
\* top under the colour active.
Legal(card, top, active) ==
    \/ active # BLACK /\ card.color = active
    \/ card.color = top.color
    \/ card.type = top.type
    \/ card.color = BLACK

\* C2: __can_be_played__ answers true exactly when the wild colour is set
\* and is the card's colour, or the card has the colour or the type of the
\* top card, or the card is black; and asking changes nothing of the game.
C2_LegalitySound ==
    [][ev'.op = "can_be_played" =>
         /\ ev'.ret <=> Legal(Hand[1], Last(discard), wild_color)
         /\ UNCHANGED <<deck, discard, cards, score, wild_color, winner_index,
                        clockwise, turn>>]_vars

\* C2 witness: a card was found playable for the wild colour alone.
C2_Witness ==
    /\ ev.op = "can_be_played"
    /\ ev.ret
    /\ wild_color = ev.card.color
    /\ ev.card.color # Last(discard).color
    /\ ev.card.type # Last(discard).type
    /\ ev.card.color # BLACK

\* C3: once a card has been played, a top card that is no wild card comes
\* with wild_color BLACK.
C3_WildColorCleared ==
    (/\ pc \in {"run", "refused", "over", "scored"}
     /\ steps > 0
     /\ Last(discard).type \notin WildTypes) => wild_color = BLACK

\* C4: on a top card that is no wild card, the card a play is accepted for
\* has the colour of the top card, or its type, or is black.
C4_OnlyMatchingAccepted ==
    [][(PlayStep /\ Last(discard).type \notin WildTypes) =>
         \/ ev'.card.color = Last(discard).color
         \/ ev'.card.type = Last(discard).type
         \/ ev'.card.color = BLACK]_vars

\* C5: a play of a number card that leaves the player with cards moves the
\* turn one seat in the direction of play, keeps the direction and leaves
\* the hands of the other seats as they are.
C5_TurnMonotonic ==
    [][(PlayStep /\ ev'.card.type \in ZERO..NINE /\ cards'[turn] # <<>>) =>
         /\ turn' = SeatAfter(turn)
         /\ clockwise' = clockwise
         /\ \A p \in Seats \ {turn} : cards'[p] = cards[p]]_vars

\* C5 witness: counter-clockwise, seat 0 played a number card and kept
\* cards, and the turn is with the last of three seats.
C5_Witness ==
    /\ ev.op = "play"
    /\ ev.card.type \in ZERO..NINE
    /\ ev.ret
    /\ ~ clockwise
    /\ num_player = 3
    /\ ev.seat = 0
    /\ turn = 2

\* C6: with two players, a play of a Reverse leaves the turn and the
\* direction as a play of a Skip from the same state would: the turn is back
\* with the seat that played and the direction is the one before.
C6_ReverseIsSkip ==
    [][(PlayStep /\ num_player = 2 /\ ev'.card.type = REVERSE) =>
         /\ turn' = play_skip(Game).turn
         /\ clockwise' = play_skip(Game).clockwise
         /\ turn' = turn
         /\ clockwise' = clockwise]_vars

\* C6 witness: of two players, one played a Reverse, kept cards and has the
\* turn again.
C6_Witness ==
    /\ num_player = 2
    /\ ev.op = "play"
    /\ ev.card.type = REVERSE
    /\ ev.ret
    /\ turn = ev.seat

\* C7: winner_index is a seat only when that seat has no cards; a play that
\* leaves the seat that played without cards makes that seat winner_index
\* and run return False; with winner_index a seat there is no play and no
\* draw; and after a draw winner_index is no seat and the round goes on.
C7_RoundTermination ==
    /\ [](winner_index # 0 - 1 =>
            winner_index \in Seats /\ cards[winner_index] = <<>>)
    /\ [][/\ (PlayStep /\ cards'[turn] = <<>>) =>
                (winner_index' = turn /\ ~ ev'.ret /\ pc' = "over")
          /\ (PlayStep /\ cards'[turn] # <<>>) =>
                (winner_index' = 0 - 1 /\ ev'.ret)
          /\ winner_index # 0 - 1 => ~ PlayStep /\ ~ DrawStep
          /\ DrawStep => (winner_index' = 0 - 1 /\ ev'.ret /\ pc' = "run")]_vars

\* C7 witness: a seat played its last card while the others hold cards, and
\* the scores of the round have been counted.
C7_Witness ==
    /\ pc = "scored"
    /\ winner_index = ev.seat
    /\ cards[winner_index] = <<>>
    /\ \A p \in Seats \ {winner_index} : cards[p] # <<>>

\* A card of hand that is no Wild Draw Four and has the colour of the card
\* below, or the colour active when the card below is black.
Matching(hand, below, active) ==
    \E c \in Elems(hand) :
       /\ c.type # WILD_DRAW_FOUR
       /\ c.color = (IF below.color # BLACK THEN below.color ELSE active)

\* Cards the forced draws of a play can take: the deck and the discard pile
\* below the card played.
Available == Len(deck) + Len(discard) - (IF ev'.drew # NoCard THEN 1 ELSE 0)

\* The hand of the seat that plays, without the card played.
Remaining ==
    IF ev'.drew # NoCard THEN BagOf(cards[turn])
    ELSE BagOf(cards[turn]) (-) SetToBag({ev'.card})

\* The step is a play of a Wild Draw Four.
PlayWD4 == PlayStep /\ ev'.card.type = WILD_DRAW_FOUR

\* C8: a Wild Draw Four is found illegal exactly when the hand it is played
\* from holds a card, no Wild Draw Four, of the colour of the top card
\* before the play, or of wild_color before the play when that card is black.
C8_AuditExact ==
    [][PlayWD4 =>
         (~ ev'.audit <=> Matching(cards[turn], Last(discard), wild_color))]_vars

\* C9: a Wild Draw Four played from a hand with a matching card and
\* challenged, with 4 cards to draw, gives 4 cards to the seat that played,
\* leaves the hand of the challenger and moves the turn past the challenger.
C9_ChallengeWon ==
    [][(/\ PlayWD4
        /\ Matching(cards[turn], Last(discard), wild_color)
        /\ ev'.answer = ".y"
        /\ Available >= 4) =>
         /\ Len(cards'[turn]) = BagCardinality(Remaining) + 4
         /\ cards'[SeatAfter(turn)] = cards[SeatAfter(turn)]
         /\ turn' = SeatAfter(SeatAfter(turn))]_vars

\* C10: a Wild Draw Four played from a hand with no matching card and
\* challenged, with 6 cards to draw, gives 6 cards to the challenger and
\* none to the seat that played, and moves the turn past the challenger.
C10_ChallengeLost ==
    [][(/\ PlayWD4
        /\ ~ Matching(cards[turn], Last(discard), wild_color)
        /\ ev'.answer = ".y"
        /\ Available >= 6) =>
         /\ Len(cards'[SeatAfter(turn)]) = Len(cards[SeatAfter(turn)]) + 6
         /\ BagOf(cards'[turn]) = Remaining
         /\ turn' = SeatAfter(SeatAfter(turn))]_vars

\* C10 witness: a Wild Draw Four was found legal and challenged, the seat
\* after the challenger has the turn, and the challenger holds the 6 cards
\* on top of the hand dealt.
C10_Witness ==
    /\ ev.op = "play"
    /\ ev.card.type = WILD_DRAW_FOUR
    /\ ev.answer = ".y"
    /\ ev.audit
    /\ steps = 1
    /\ Len(discard) > 1
    /\ discard[Len(discard) - 1].color # BLACK
    /\ \E p \in Seats \ {ev.seat} :
          /\ Len(cards[p]) = HandSize + 6
          /\ turn = SeatAfter(p)

\* C11: a draw asked of an empty deck takes the discard pile but its top
\* card for the deck and leaves that top card as the whole pile; when the
\* pile is its top card alone the draw gives nothing and the deck, the pile
\* and the hands stay as they are.
C11_ReshuffleOnEmpty ==
    [][(DrawStep /\ deck = <<>>) =>
         IF Len(discard) = 1
         THEN /\ ev'.drew = NoCard
              /\ ev'.ret
              /\ deck' = deck
              /\ discard' = discard
              /\ cards' = cards
         ELSE /\ ev'.drew # NoCard
              /\ discard' = <<Last(discard)>>
              /\ BagOf(deck') (+) SetToBag({ev'.drew}) = BagOf(ButLast(discard))
              /\ BagOf(cards'[ev'.seat]) =
                    BagOf(cards[ev'.seat]) (+) SetToBag({ev'.drew})
              /\ \A p \in Seats \ {ev'.seat} : cards'[p] = cards[p]]_vars

\* C11 witness: a draw was asked with the deck empty and the discard pile
\* down to its top card, and no card was given.
C11_Witness ==
    /\ ev.op = "draw"
    /\ ev.drew = NoCard
    /\ steps > 0
    /\ deck = <<>>
    /\ Len(discard) = 1

\* C12: a ".p" with an index out of range, or on a card that cannot be
\* played, is refused: the deck, the discard pile, the hands, the turn, the
\* direction, wild_color and winner_index stay as they are and the same seat
\* is asked again; and no card is played that cannot be played.
C12_InvalidMoveNoChange ==
    [][/\ refused' # Nothing =>
             /\ UNCHANGED <<deck, discard, cards, turn, clockwise, wild_color,
                            winner_index, score, steps>>
             /\ \/ refused'.why = "Index out of range." /\ refused'.card = NoCard
                \/ /\ refused'.why = "This card cannot be played."
                   /\ refused'.card \in Elems(Hand)
                   /\ ~ can_be_played(Game, refused'.card)
       /\ refused # Nothing =>
             /\ UNCHANGED <<deck, discard, cards, turn, clockwise, wild_color,
                            winner_index, score, steps>>
             /\ pc' = "run"
       /\ PlayStep => can_be_played(Game, ev'.card)]_vars

\* C12 witness: after a card was played, a card of the hand of the seat to
\* play has been refused, and the seat holds a card it could play.
C12_Witness ==
    /\ steps > 0
    /\ pc = "refused"
    /\ refused.why = "This card cannot be played."
    /\ refused.card \in Elems(Hand)
    /\ \E c \in Elems(Hand) : can_be_played(Game, c)

\* The value of a card: its number, 20 for an action card, 50 for a wild card.
Worth(card) ==
    IF card.type <= NINE THEN card.type
    ELSE IF card.type \in WildTypes THEN 50
    ELSE 20

RECURSIVE WorthOfHands(_, _)
\* The values of the cards of the hands but the hand of seat w, added up
\* over the cards one by one.
WorthOfHands(hands, w) ==
    IF \A p \in DOMAIN hands : p = w \/ hands[p] = <<>> THEN 0
    ELSE LET p == CHOOSE q \in DOMAIN hands : q # w /\ hands[q] # <<>>
         IN  Worth(Head(hands[p]))
             + WorthOfHands([hands EXCEPT ![p] = Tail(@)], w)

\* C13: game_end adds to the score of the winner the values of the cards
\* the other seats hold (a number card its number, Skip, Reverse and Draw
\* Two 20, Wild and Wild Draw Four 50), and leaves the other scores and the
\* hands as they are.
C13_RoundScoring ==
    /\ \A card \in RealCards : card_score(card) = Worth(card)
    /\ [][ev'.op = "end" =>
            /\ score'[winner_index] =
                  score[winner_index] + WorthOfHands(cards, winner_index)
            /\ \A p \in Seats \ {winner_index} : score'[p] = score[p]
            /\ UNCHANGED <<cards, deck, discard, winner_index>>]_vars

\* C13 witness: the round has been scored, and the winner has the points of
\* a wild card, an action card and a number card held by the other seats.
C13_Witness ==
    /\ pc = "scored"
    /\ ev.op = "end"
    /\ score[winner_index] = 50 + 20 + 1
    /\ \A p \in Seats \ {winner_index} : score[p] = 0 /\ cards[p] # <<>>

(***************************************************************************)
(* Game.__init__ on the deck of the code: 108 cards, 7 to each player, for *)
(* every number of players main accepts, up to the effect of the first     *)
(* card discarded.  A Wild Draw Four on top is put back and the deck       *)
(* shuffled before another card is discarded: the orders of the deck that  *)
(* come of it are orders SetupInit starts from, and the loop itself is     *)
(* explored by Spec.                                                       *)
(***************************************************************************)
\* "for time in range(7)"
DealtCards == 7

\* main: "num_player >= 2 and num_player <= 10"
MostPlayers == 10

SetupInit ==
    /\ num_player \in MinPlayers..MostPlayers
    /\ deck \in shuffle(FullDeck)
    /\ discard = <<>>
    /\ cards = [p \in 0..(num_player - 1) |-> <<>>]
    /\ score = [p \in 0..(num_player - 1) |-> 0]
    /\ wild_color = BLACK
    /\ winner_index = 0 - 1
    /\ clockwise = TRUE
    /\ turn = 1
    /\ pc = "deal"
    /\ steps = 0
    /\ ev = Event("init", 1, NoCard, NoCard, TRUE, "", "", TRUE)
    /\ refused = Nothing

\* Game.__init__: seven cards to every player.
DealSeven ==
    /\ pc = "deal"
    /\ \E g \in deal_hands({Game}, 0, DealtCards) : Becomes(g)
    /\ pc' = "flip"
    /\ ev' = Quiet("deal")
    /\ UNCHANGED <<num_player, score, steps, refused>>

SetupNext ==
    \/ DealSeven
    \/ OpeningFlip
    \/ OpeningCard
    \/ ColorLoop

SpecSetup == SetupInit /\ [][SetupNext]_vars

\* C14: the deck built has 108 cards; when the cards have been dealt and
\* none is discarded yet, every hand holds 7 cards, the deck holds 108 less
\* 7 for each player, and the discard pile is empty.
C14_Dealing ==
    /\ pc = "deal" => Len(deck) = 108 /\ discard = <<>>
    /\ pc = "flip" =>
          /\ \A p \in Seats : Len(cards[p]) = 7
          /\ Len(deck) = 108 - 7 * num_player
          /\ discard = <<>>

\* C14 witness: four players have their cards and 80 cards are left.
C14_Witness ==
    /\ pc = "flip"
    /\ num_player = 4
    /\ Len(deck) = 80
    /\ \A p \in Seats : Len(cards[p]) = 7

\* C15: from the first discard on the discard pile is never empty; while
\* the first card is being chosen it is one card; and when __init__ is
\* done it is one card that is no Wild Draw Four.
C15_OpeningCard ==
    /\ pc \notin {"deal", "flip"} => discard # <<>>
    /\ pc = "flipped" => Len(discard) = 1
    /\ (pc \in {"run", "refused", "color_loop"} /\ steps = 0) =>
          /\ Len(discard) = 1
          /\ Last(discard).type # WILD_DRAW_FOUR

\* C15 witness: a Draw Two was played, the draws it forced turned the
\* discard pile over into the deck, and the pile is the Draw Two alone.
C15_Witness ==
    /\ ev.op = "play"
    /\ ev.card.type = DRAW_TWO
    /\ discard = <<ev.card>>

\* The colour an answer to a colour prompt names.
Named(answer) ==
    CASE answer = ".r" -> RED
      [] answer = ".y" -> YELLOW
      [] answer = ".g" -> GREEN
      [] answer = ".b" -> BLUE
      [] OTHER -> BLACK

\* The step is the effect of the first card discarded.
OpenStep == ev'.op = "open"

\* C16: from turn 1 and clockwise, a first card that is a number leaves
\* both; a Skip gives the turn to seat 2 mod n; a Draw Two gives seat 1 the
\* two cards on top of the deck (9 in hand) and the turn to seat 2 mod n; a
\* Reverse makes the direction counter-clockwise and gives the turn to seat
\* 0; a Wild makes wild_color the colour named and leaves the turn with
\* seat 1.  The hands of the other seats stay as they are.
C16_OpeningResolution ==
    [][OpenStep =>
         LET type == Last(discard).type
             n == Len(deck)
         IN  /\ turn = 1 /\ clockwise /\ wild_color = BLACK
             /\ discard' = discard
             /\ \A p \in Seats \ {1} : cards'[p] = cards[p]
             /\ type # DRAW_TWO => cards' = cards /\ deck' = deck
             /\ type # WILD => wild_color' = BLACK
             /\ type # REVERSE => clockwise'
             /\ type \in ZERO..NINE => turn' = 1
             /\ type = SKIP => turn' = 2 % num_player
             /\ type = DRAW_TWO =>
                   /\ Len(cards'[1]) = 9
                   /\ BagOf(cards'[1]) =
                         BagOf(cards[1]) (+) BagOf(<<deck[n], deck[n - 1]>>)
                   /\ deck' = SubSeq(deck, 1, n - 2)
                   /\ turn' = 2 % num_player
             /\ type = REVERSE => ~ clockwise' /\ turn' = 0
             /\ (type = WILD /\ pc' = "run") =>
                   /\ wild_color' = Named(lower(ev'.color))
                   /\ wild_color' \in RED..BLUE
                   /\ turn' = 1]_vars

\* C16 witness: of three players, seat 1 was given a colour to name for a
\* first Wild and named yellow, and has the turn.
C16_Witness ==
    /\ ev.op = "open"
    /\ pc = "run"
    /\ num_player = 3
    /\ Last(discard).type = WILD
    /\ ev.color = ".y"
    /\ wild_color = YELLOW
    /\ turn = 1

\* The smaller of two numbers.
Min(a, b) == IF a < b THEN a ELSE b

\* C17: a play of a Skip moves the turn two seats in the direction of play
\* and leaves the other hands; a play of a Draw Two gives two cards (as many
\* as there are, when fewer than two can be drawn) to the seat after the
\* player, moves the turn two seats from the player and leaves the hands of
\* the seats that neither played nor drew; the direction stays in both.
C17_SkipAndDrawTwo ==
    [][/\ (PlayStep /\ ev'.card.type = SKIP) =>
             /\ turn' = SeatAfter(SeatAfter(turn))
             /\ clockwise' = clockwise
             /\ BagOf(cards'[turn]) = Remaining
             /\ \A p \in Seats \ {turn} : cards'[p] = cards[p]
             /\ Len(deck') + Len(discard') = Len(deck) + Len(discard) + 1
                   - (IF ev'.drew # NoCard THEN 1 ELSE 0)
       /\ (PlayStep /\ ev'.card.type = DRAW_TWO) =>
             LET drawing == SeatAfter(turn)
             IN  /\ turn' = SeatAfter(SeatAfter(turn))
                 /\ clockwise' = clockwise
                 /\ BagOf(cards'[turn]) = Remaining
                 /\ Len(cards'[drawing]) =
                       Len(cards[drawing]) + Min(2, Available)
                 /\ Available >= 2 =>
                       Len(cards'[drawing]) = Len(cards[drawing]) + 2
                 /\ \A p \in Seats \ {turn, drawing} : cards'[p] = cards[p]]_vars

\* C17 witness: counter-clockwise, of three players, a Draw Two was played,
\* the seat before the player has two cards more than it was dealt, and the
\* turn is two seats back from the player.
C17_Witness ==
    /\ ev.op = "play"
    /\ ev.card.type = DRAW_TWO
    /\ num_player = 3
    /\ ~ clockwise
    /\ Len(cards[(ev.seat + 2) % 3]) = HandSize + 2
    /\ turn = (ev.seat + 1) % 3

\* C17 as stated: a play of a Skip moves the turn two seats and leaves the
\* other hands, and a play of a Draw Two gives the seat after the player two
\* cards and moves the turn two seats from the player, whatever the deck
\* and the discard pile hold.
C17_AlwaysTwoCards ==
    [][/\ (PlayStep /\ ev'.card.type = SKIP) =>
             /\ turn' = SeatAfter(SeatAfter(turn))
             /\ clockwise' = clockwise
             /\ \A p \in Seats \ {turn} : cards'[p] = cards[p]
       /\ (PlayStep /\ ev'.card.type = DRAW_TWO) =>
             /\ turn' = SeatAfter(SeatAfter(turn))
             /\ clockwise' = clockwise
             /\ Len(cards'[SeatAfter(turn)]) = Len(cards[SeatAfter(turn)]) + 2]_vars

\* C18: with three players or more, a play of a Reverse turns the
\* direction over once and gives the turn to the seat one step from the
\* player in the new direction, the seat before the player in the old one;
\* no seat draws: the other hands stay and the player's is less the card.
C18_ReverseThreeOrMore ==
    [][(PlayStep /\ ev'.card.type = REVERSE /\ num_player >= 3) =>
         /\ clockwise' = ~ clockwise
         /\ turn' = IF clockwise THEN (turn + num_player - 1) % num_player
                    ELSE (turn + 1) % num_player
         /\ SeatAfter(turn') = turn
         /\ \A p \in Seats \ {turn} : cards'[p] = cards[p]
         /\ BagOf(cards'[turn]) = Remaining
         /\ Len(deck') + Len(discard') = Len(deck) + Len(discard) + 1
               - (IF ev'.drew # NoCard THEN 1 ELSE 0)]_vars

\* C18 witness: of three players, seat 0 played a Reverse in a round that
\* ran counter-clockwise; the round runs clockwise and seat 1 has the turn.
C18_Witness ==
    /\ ev.op = "play"
    /\ ev.card.type = REVERSE
    /\ num_player = 3
    /\ ev.seat = 0
    /\ clockwise
    /\ turn = 1
    /\ steps > 1

\* C19: a Wild Draw Four that is not challenged makes wild_color the colour
\* the player named, gives 4 cards to the next seat when 4 can be drawn and
\* none to the player, and moves the turn two seats from the player in the
\* direction of play, whatever is_legal_wd4 found.
C19_Unchallenged ==
    [][(PlayWD4 /\ ev'.answer = ".n") =>
         /\ wild_color' = Named(ev'.color)
         /\ wild_color' \in RED..BLUE
         /\ Available >= 4 =>
               Len(cards'[SeatAfter(turn)]) = Len(cards[SeatAfter(turn)]) + 4
         /\ Len(cards'[SeatAfter(turn)]) =
               Len(cards[SeatAfter(turn)]) + Min(4, Available)
         /\ BagOf(cards'[turn]) = Remaining
         /\ \A p \in Seats \ {turn, SeatAfter(turn)} : cards'[p] = cards[p]
         /\ turn' = SeatAfter(SeatAfter(turn))
         /\ clockwise' = clockwise]_vars

\* C19 witness: a Wild Draw Four found illegal was not challenged; the
\* colour is the one named, the next seat holds 4 cards more than it was
\* dealt and the turn is past it.
C19_Witness ==
    /\ ev.op = "play"
    /\ ev.card.type = WILD_DRAW_FOUR
    /\ ev.answer = ".n"
    /\ ~ ev.audit
    /\ ev.color = ".g"
    /\ wild_color = GREEN
    /\ Len(cards[SeatAfter(ev.seat)]) = HandSize + 4
    /\ turn = SeatAfter(SeatAfter(ev.seat))

\* The step is a ".d" of Game.run: a card was drawn, or none could be.
VoluntaryDraw == steps' = steps + 1 /\ (ev'.op = "draw" \/ ev'.drew # NoCard)

\* What C20 says of a ".d" but for the discard pile of a card drawn and not
\* played.
DrawRules ==
    /\ \A p \in Seats \ {turn} : ev'.op = "draw" => cards'[p] = cards[p]
    /\ (ev'.op = "play") =>
          /\ ev'.card = ev'.drew
          /\ can_be_played(Game, ev'.drew)
          /\ Last(discard') = ev'.drew
    /\ (ev'.op = "draw" /\ ev'.drew # NoCard) =>
          /\ Len(cards'[turn]) = Len(cards[turn]) + 1
          /\ BagOf(cards'[turn]) = BagOf(cards[turn]) (+) SetToBag({ev'.drew})
          /\ ev'.card # NoCard =>
                ev'.card = ev'.drew /\ ~ can_be_played(Game, ev'.drew)
          /\ turn' = SeatAfter(turn)
          /\ clockwise' = clockwise
    /\ (ev'.op = "draw" /\ ev'.drew = NoCard) =>
          /\ deck = <<>> /\ Len(discard) = 1
          /\ cards' = cards
          /\ discard' = discard
          /\ turn' = SeatAfter(turn)
          /\ clockwise' = clockwise

\* C20: a ".d" gives the player one card; the player may play that card
\* and no other, and only if it can be played; a card kept, or refused when
\* the player asks to play it, leaves the hand one card larger and the top
\* of the discard pile as it was (the pile itself too, unless the deck was
\* empty and took the cards below the top), and moves the turn one seat;
\* when no card can be drawn the hand stays and the turn moves one seat.
C20_VoluntaryDraw ==
    [][VoluntaryDraw =>
         /\ DrawRules
         /\ (ev'.op = "draw" /\ ev'.drew # NoCard) =>
               /\ Last(discard') = Last(discard)
               /\ discard' = IF deck = <<>> THEN <<Last(discard)>> ELSE discard]_vars

\* C20 as stated: the same, with the discard pile as it was whenever the
\* card drawn is not played.
C20_DiscardUnchanged ==
    [][VoluntaryDraw =>
         /\ DrawRules
         /\ (ev'.op = "draw" /\ ev'.drew # NoCard) => discard' = discard]_vars

\* C20 witness: the player drew a card, asked to play it and was refused;
\* the card is in the hand and the turn is with the next seat.
C20_Witness ==
    /\ ev.op = "draw"
    /\ ev.drew # NoCard
    /\ ev.card = ev.drew
    /\ ev.drew \in Elems(cards[ev.seat])
    /\ Len(cards[ev.seat]) = HandSize + 1
    /\ turn = SeatAfter(ev.seat)

\* The step is an answer to the colour prompt of a first Wild.
OpeningAnswer == ev'.op \in {"open", "open_again"} /\ Last(discard).type = WILD

\* C21: at the colour prompt of a first Wild an answer that names no colour
\* changes nothing of the game, and an answer that names one, the first or
\* after any answers that named none, ends __init__ with wild_color that
\* colour.
C21_OpeningColourPrompt ==
    [][OpeningAnswer =>
         IF lower(ev'.color) \in ColorAnswers
         THEN /\ pc' = "run"
              /\ wild_color' = Named(lower(ev'.color))
         ELSE UNCHANGED <<deck, discard, cards, score, wild_color,
                          winner_index, clockwise, turn>>]_vars

(***************************************************************************)
(* The turn by itself, for every number of players main accepts.  What     *)
(* __init__ and __play_card__ do to turn and clockwise depends on turn,    *)
(* clockwise and the number of players alone: one __next_turn__ (a number  *)
(* card, a Wild, a draw, a first Skip or Draw Two), two (Skip, Draw Two,   *)
(* Wild Draw Four), the Reverse branch, and the Reverse of __init__.       *)
(***************************************************************************)
TurnInit ==
    /\ num_player \in MinPlayers..MostPlayers
    /\ deck = <<>>
    /\ discard = <<>>
    /\ cards = [p \in 0..(num_player - 1) |-> <<>>]
    /\ score = [p \in 0..(num_player - 1) |-> 0]
    /\ wild_color = BLACK
    /\ winner_index = 0 - 1
    /\ clockwise = TRUE
    /\ turn = 1
    /\ pc = "run"
    /\ steps = 0
    /\ ev = Event("init", 1, NoCard, NoCard, TRUE, "", "", TRUE)
    /\ refused = Nothing

\* The turn and the direction become those of g.
Turns(op, g) ==
    /\ turn' = g.turn
    /\ clockwise' = g.clockwise
    /\ ev' = Quiet(op)
    /\ UNCHANGED <<num_player, deck, discard, cards, score, wild_color,
                   winner_index, pc, steps, refused>>

\* "self.__next_turn__()" once.
TurnOnce == Turns("next", next_turn(Game))

\* The two __next_turn__ of the Skip, Draw Two and Wild Draw Four branches.
TurnTwice == Turns("skip", play_skip(Game))

\* The Reverse branch of __play_card__.
TurnReverse == Turns("reverse", play_reverse(Game))

\* The Reverse branch of __init__.
TurnOpeningReverse ==
    /\ ev.op = "init"
    /\ Turns("open", next_turn([Game EXCEPT !.clockwise = FALSE]))

TurnNext ==
    \/ TurnOnce
    \/ TurnTwice
    \/ TurnReverse
    \/ TurnOpeningReverse

SpecTurn == TurnInit /\ [][TurnNext]_vars

\* C22: the turn is a seat at all times: at least 0 and less than the
\* number of players.
C22_TurnInRange ==
    /\ 0 <= turn
    /\ turn < num_player
    /\ num_player >= 2
    /\ num_player <= 10

\* C22 witness: of ten players, counter-clockwise, seat 1 was passed over
\* twice and seat 9 has the turn.
C22_Witness ==
    /\ num_player = 10
    /\ ~ clockwise
    /\ ev.op = "skip"
    /\ ev.seat = 1
    /\ turn = 9

\* The four colours a player can name.
NamedColors == {RED, YELLOW, GREEN, BLUE}

\* C23: when Game.run waits for a player and the top card is a Wild or a
\* Wild Draw Four, wild_color is one of the four colours; a play of a wild
\* card makes it the colour named; a draw leaves wild_color and the top
\* card as they are, whether or not the deck was refilled; and after a play
\* the top card is the card played, whatever was drawn and refilled.
C23_WildHasColour ==
    /\ []((pc \in {"run", "refused"} /\ Last(discard).type \in WildTypes) =>
             wild_color \in NamedColors)
    /\ [][/\ (PlayStep /\ ev'.card.type \in WildTypes) =>
                (wild_color' = Named(ev'.color) /\ wild_color' \in NamedColors)
          /\ PlayStep => Last(discard') = ev'.card
          /\ DrawStep =>
                (wild_color' = wild_color /\ Last(discard') = Last(discard))]_vars

\* C23 witness: a card was drawn from a deck refilled under a Wild Draw
\* Four, which is the whole discard pile; the colour named for it is in
\* force and Game.run waits for the next player.
C23_Witness ==
    /\ pc = "run"
    /\ ev.op = "draw"
    /\ ev.drew # NoCard
    /\ discard = <<Card(BLACK, WILD_DRAW_FOUR)>>
    /\ wild_color \in NamedColors

====
